---- MODULE Spec2Model ----
(***************************************************************************)
(* Week-based calendars of chrono-ext: WeekSpecification (the rule) and    *)
(* CustomWeek (the computed week).                                         *)
(*                                                                         *)
(* A date (chrono::NaiveDate) is its num_days_from_ce: 0001-01-01 is day 1 *)
(* and is a Monday.  A weekday (chrono::Weekday) is its                    *)
(* num_days_from_monday: Mon = 0 .. Sun = 6.  The *_panics operators say   *)
(* where an unwrap or an overflow-checked u32 operation panics, or where a *)
(* negative day count is cast to u32.                                      *)
(*                                                                         *)
(* The caller modelled here constructs one rule, then either queries the   *)
(* per-year functions or classifies one date and navigates with succ/pred. *)
(* All operations are pure, so every (rule, date, week) the library can    *)
(* produce is reached this way.                                            *)
(***************************************************************************)
EXTENDS Integers, Sequences, FiniteSets, TLC

VARIABLES pc, op, spec, args, year, date, ret, cw, failed

vars == <<pc, op, spec, args, year, date, ret, cw, failed>>

\* ---------------------------------------------------------------- bounds
\* The window of years holds leap years (2016, 2020) and common years with
\* every kind of neighbour; a rule sees a year only through the weekday of
\* January 1st relative to its first_day, and the seven first_day values
\* give each year all seven relative positions.
MinYear == 2016
MaxYear == 2020
MaxMinDaysArg == 8

\* ------------------------------------------------------- chrono primitives
Mon == 0
Tue == 1
Wed == 2
Thu == 3
Fri == 4
Sat == 5
Sun == 6

Weekday == Mon..Sun

\* A u32 that wrapped below zero is at least 2^32 - 2^31, beyond the integers
\* of the model checker: every such value is represented by the largest one.
WrappedU32 == 2147483647

\* `x as u32` of a day count
as_u32(x) == IF x < 0 THEN WrappedU32 ELSE x

\* a - b on u32
u32_sub(a, b) == IF a < b THEN WrappedU32 ELSE a - b

None == <<>>

Some(x) == <<x>>

unwrap(o) == o[1]

is_leap_year(y) == (y % 4 = 0) /\ ((y % 100 # 0) \/ (y % 400 = 0))

days_in_year(y) == IF is_leap_year(y) THEN 366 ELSE 365

\* num_days_from_ce of December 31st of year y - 1
DaysBeforeYear(y) ==
    365 * (y - 1) + ((y - 1) \div 4) - ((y - 1) \div 100) + ((y - 1) \div 400)

days_in_month(y, m) ==
    IF m = 2 THEN (IF is_leap_year(y) THEN 29 ELSE 28)
    ELSE IF m \in {4, 6, 9, 11} THEN 30 ELSE 31

RECURSIVE DaysBeforeMonth(_, _)
DaysBeforeMonth(y, m) ==
    IF m <= 1 THEN 0 ELSE DaysBeforeMonth(y, m - 1) + days_in_month(y, m - 1)

\* NaiveDate::from_ymd_opt: None on an invalid month or day
from_ymd_opt(y, m, d) ==
    IF m >= 1 /\ m <= 12 /\ d >= 1 /\ d <= days_in_month(y, m)
    THEN Some(DaysBeforeYear(y) + DaysBeforeMonth(y, m) + d)
    ELSE None

\* Datelike::year
date_year(d) ==
    LET g == ((d * 400) \div 146097) + 1
    IN  IF d <= DaysBeforeYear(g) THEN g - 1
        ELSE IF d > DaysBeforeYear(g + 1) THEN g + 1
        ELSE g

\* Datelike::weekday, as num_days_from_monday
weekday(d) == (d - 1) % 7

\* Datelike::ordinal0
ordinal0(d) == d - DaysBeforeYear(date_year(d)) - 1

\* Datelike::with_ordinal0: None when the ordinal is not a day of the year
with_ordinal0(d, ord0) ==
    IF ord0 >= 0 /\ ord0 < days_in_year(date_year(d))
    THEN Some(DaysBeforeYear(date_year(d)) + ord0 + 1)
    ELSE None

MinDate == DaysBeforeYear(MinYear) + 1

MaxDate == DaysBeforeYear(MaxYear + 1)

Dates == MinDate..MaxDate

Years == MinYear..MaxYear

\* ------------------------------------------------------ WeekSpecification
WeekSpecification(fd, n) == [first_day |-> fd, min_days_in_first_week |-> n]

NoSpec == WeekSpecification(Mon, 0)

Ok(s) == [tag |-> "Ok", value |-> s, err |-> <<>>]

\* Error::OutOfRange(u32, u32, u32)
OutOfRange(v, lo, hi) == <<"OutOfRange", v, lo, hi>>

Err(e) == [tag |-> "Err", value |-> NoSpec, err |-> e]

\* mutant: the upper bound is tested with >=
new_upper_bound_off_by_one(first_day, min_days_in_first_week) ==
    IF min_days_in_first_week < 1 \/ min_days_in_first_week >= 7
    THEN Err(OutOfRange(min_days_in_first_week, 1, 7))
    ELSE Ok(WeekSpecification(first_day, min_days_in_first_week))

new(first_day, min_days_in_first_week) ==
    IF min_days_in_first_week < 1 \/ min_days_in_first_week > 7
    THEN Err(OutOfRange(min_days_in_first_week, 1, 7))
    ELSE Ok(WeekSpecification(first_day, min_days_in_first_week))

sunday_start == WeekSpecification(Sun, 1)

iso_week == WeekSpecification(Mon, 4)

french_theater_week == WeekSpecification(Wed, 4)

\* mutant: the reduction modulo 7 is forgotten
num_days_from_first_dow_no_mod(s, day) ==
    u32_sub(7 + day, s.first_day)

num_days_from_first_dow(s, day) ==
    u32_sub(7 + day, s.first_day) % 7

num_days_from_first_dow_panics(s, day) == 7 + day < s.first_day

number_from_first_dow(s, day) == 1 + num_days_from_first_dow(s, day)

\* delta of first_day_of_week_based_year
first_day_delta(s, y) ==
    u32_sub(7, num_days_from_first_dow(s, weekday(unwrap(from_ymd_opt(y, 1, 1)))))

\* mutant: the candidate is compared with < instead of <=
first_day_of_week_based_year_strict(s, y) ==
    LET reference == unwrap(from_ymd_opt(y, 1, s.min_days_in_first_week))
        january_first == unwrap(from_ymd_opt(y, 1, 1))
        delta == first_day_delta(s, y)
        week_date == unwrap(with_ordinal0(january_first, delta))
    IN  IF week_date < reference THEN week_date ELSE week_date - 7

first_day_of_week_based_year(s, y) ==
    LET reference == unwrap(from_ymd_opt(y, 1, s.min_days_in_first_week))
        january_first == unwrap(from_ymd_opt(y, 1, 1))
        delta == first_day_delta(s, y)
        week_date == unwrap(with_ordinal0(january_first, delta))
    IN  IF week_date <= reference THEN week_date ELSE week_date - 7

first_day_of_week_based_year_panics(s, y) ==
    LET january_first == unwrap(from_ymd_opt(y, 1, 1))
    IN  \/ from_ymd_opt(y, 1, s.min_days_in_first_week) = None
        \/ num_days_from_first_dow_panics(s, weekday(january_first))
        \/ 7 < num_days_from_first_dow(s, weekday(january_first))
        \/ with_ordinal0(january_first, first_day_delta(s, y)) = None

\* mutant: the day before is not taken
last_day_of_week_based_year_no_minus(s, y) == first_day_of_week_based_year(s, y + 1)

last_day_of_week_based_year(s, y) == first_day_of_week_based_year(s, y + 1) - 1

last_day_of_week_based_year_panics(s, y) ==
    first_day_of_week_based_year_panics(s, y + 1)

num_weeks(s, y) ==
    LET diff == last_day_of_week_based_year(s, y) - first_day_of_week_based_year(s, y)
    IN  1 + (as_u32(diff) \div 7)

num_weeks_panics(s, y) ==
    \/ last_day_of_week_based_year_panics(s, y)
    \/ first_day_of_week_based_year_panics(s, y)
    \/ last_day_of_week_based_year(s, y) < first_day_of_week_based_year(s, y)

\* --------------------------------------------------------------- CustomWeek
CustomWeek(y, w, ws, s) ==
    [year |-> y, week |-> w, week_start |-> ws, specification |-> s]

NoWeek == CustomWeek(0, 0, 0, NoSpec)

\* mutant: week_start is taken with the 1-based day number of the week
week_start_one_based(s, d) ==
    LET dy == date_year(d)
        first == first_day_of_week_based_year(s, dy)
        last == last_day_of_week_based_year(s, dy)
        yw == IF d < first THEN <<dy - 1, num_weeks(s, dy - 1)>>
              ELSE IF d > last THEN <<dy + 1, 1>>
              ELSE <<dy, 1 + (as_u32(d - first) \div 7)>>
        week_start == d - number_from_first_dow(s, weekday(d))
    IN  CustomWeek(yw[1], yw[2], week_start, s)

\* mutant: the week before the first day is numbered with the year of the date
week_num_weeks_of_date_year(s, d) ==
    LET dy == date_year(d)
        first == first_day_of_week_based_year(s, dy)
        last == last_day_of_week_based_year(s, dy)
        yw == IF d < first THEN <<dy - 1, num_weeks(s, dy)>>
              ELSE IF d > last THEN <<dy + 1, 1>>
              ELSE <<dy, 1 + (as_u32(d - first) \div 7)>>
        week_start == d - num_days_from_first_dow(s, weekday(d))
    IN  CustomWeek(yw[1], yw[2], week_start, s)

\* mutant: the last day of the week-based year is given to the next year
week_last_day_excluded(s, d) ==
    LET dy == date_year(d)
        first == first_day_of_week_based_year(s, dy)
        last == last_day_of_week_based_year(s, dy)
        yw == IF d < first THEN <<dy - 1, num_weeks(s, dy - 1)>>
              ELSE IF d >= last THEN <<dy + 1, 1>>
              ELSE <<dy, 1 + (as_u32(d - first) \div 7)>>
        week_start == d - num_days_from_first_dow(s, weekday(d))
    IN  CustomWeek(yw[1], yw[2], week_start, s)

\* mutant: the first day of the week-based year is given to the year before
week_first_day_excluded(s, d) ==
    LET dy == date_year(d)
        first == first_day_of_week_based_year(s, dy)
        last == last_day_of_week_based_year(s, dy)
        yw == IF d <= first THEN <<dy - 1, num_weeks(s, dy - 1)>>
              ELSE IF d > last THEN <<dy + 1, 1>>
              ELSE <<dy, 1 + (as_u32(d - first) \div 7)>>
        week_start == d - num_days_from_first_dow(s, weekday(d))
    IN  CustomWeek(yw[1], yw[2], week_start, s)

\* mutant: the week after the last day keeps the year of the date
week_year_not_advanced(s, d) ==
    LET dy == date_year(d)
        first == first_day_of_week_based_year(s, dy)
        last == last_day_of_week_based_year(s, dy)
        yw == IF d < first THEN <<dy - 1, num_weeks(s, dy - 1)>>
              ELSE IF d > last THEN <<dy, 1>>
              ELSE <<dy, 1 + (as_u32(d - first) \div 7)>>
        week_start == d - num_days_from_first_dow(s, weekday(d))
    IN  CustomWeek(yw[1], yw[2], week_start, s)

week(s, d) ==
    LET dy == date_year(d)
        first == first_day_of_week_based_year(s, dy)
        last == last_day_of_week_based_year(s, dy)
        yw == IF d < first THEN <<dy - 1, num_weeks(s, dy - 1)>>
              ELSE IF d > last THEN <<dy + 1, 1>>
              ELSE <<dy, 1 + (as_u32(d - first) \div 7)>>
        week_start == d - num_days_from_first_dow(s, weekday(d))
    IN  CustomWeek(yw[1], yw[2], week_start, s)

week_panics(s, d) ==
    LET dy == date_year(d)
    IN  \/ first_day_of_week_based_year_panics(s, dy)
        \/ last_day_of_week_based_year_panics(s, dy)
        \/ /\ d < first_day_of_week_based_year(s, dy)
           /\ num_weeks_panics(s, dy - 1)
        \/ num_days_from_first_dow_panics(s, weekday(d))

week0(w) == u32_sub(w.week, 1)

week0_panics(w) == w.week < 1

\* mutant: one day is added instead of one week
succ_one_day(w) == week(w.specification, w.week_start + 1)

succ(w) == week(w.specification, w.week_start + 7)

succ_panics(w) == week_panics(w.specification, w.week_start + 7)

pred(w) == week(w.specification, w.week_start - 7)

pred_panics(w) == week_panics(w.specification, w.week_start - 7)

contains(w, d) == d >= w.week_start /\ d < w.week_start + 7

\* ------------------------------------------------------------------ actions
Init ==
    /\ pc = "start"
    /\ op = "none"
    /\ spec = Err(<<>>)
    /\ args = <<>>
    /\ year = 0
    /\ date = 0
    /\ ret = 0
    /\ cw = NoWeek
    /\ failed = FALSE

New(fd, n) ==
    /\ pc = "start"
    /\ op' = "new"
    /\ args' = <<fd, n>>
    /\ spec' = new(fd, n)
    /\ pc' = IF spec'.tag = "Ok" THEN "rule" ELSE "error"
    /\ UNCHANGED <<year, date, ret, cw, failed>>

Preset(name, s) ==
    /\ pc = "start"
    /\ op' = name
    /\ args' = <<>>
    /\ spec' = Ok(s)
    /\ pc' = "rule"
    /\ UNCHANGED <<year, date, ret, cw, failed>>

SundayStart == Preset("sunday_start", sunday_start)

IsoWeek == Preset("iso_week", iso_week)

FrenchTheaterWeek == Preset("french_theater_week", french_theater_week)

YearQuery(name, y, panics, value) ==
    /\ pc \in {"rule", "year"}
    /\ op' = name
    /\ year' = y
    /\ failed' = panics
    /\ ret' = IF panics THEN 0 ELSE value
    /\ pc' = IF panics THEN "panicked" ELSE "year"
    /\ UNCHANGED <<spec, args, date, cw>>

FirstDayOfWeekBasedYear(y) ==
    YearQuery("first_day_of_week_based_year", y,
              first_day_of_week_based_year_panics(spec.value, y),
              first_day_of_week_based_year(spec.value, y))

LastDayOfWeekBasedYear(y) ==
    YearQuery("last_day_of_week_based_year", y,
              last_day_of_week_based_year_panics(spec.value, y),
              last_day_of_week_based_year(spec.value, y))

NumWeeks(y) ==
    YearQuery("num_weeks", y,
              num_weeks_panics(spec.value, y),
              num_weeks(spec.value, y))

WeekCall(name, s, d, panics) ==
    /\ op' = name
    /\ date' = d
    /\ failed' = panics
    /\ cw' = IF panics THEN cw ELSE week(s, d)
    /\ pc' = IF panics THEN "panicked" ELSE "week"
    /\ ret' = 0
    /\ UNCHANGED <<spec, args, year>>

Week(d) ==
    /\ WeekCall("week", spec.value, d, week_panics(spec.value, d))

Succ ==
    /\ pc = "week"
    /\ cw.week_start + 7 <= MaxDate
    /\ WeekCall("succ", cw.specification, cw.week_start + 7, succ_panics(cw))

Pred ==
    /\ pc = "week"
    /\ cw.week_start - 7 >= MinDate
    /\ WeekCall("pred", cw.specification, cw.week_start - 7, pred_panics(cw))

Week0 ==
    /\ pc = "week"
    /\ op' = "week0"
    /\ failed' = week0_panics(cw)
    /\ ret' = IF failed' THEN 0 ELSE week0(cw)
    /\ pc' = IF failed' THEN "panicked" ELSE "week0"
    /\ UNCHANGED <<spec, args, year, date, cw>>

Next ==
    \/ \E fd \in Weekday, n \in 0..MaxMinDaysArg : New(fd, n)
    \/ SundayStart
    \/ IsoWeek
    \/ FrenchTheaterWeek
    \/ \E y \in Years : FirstDayOfWeekBasedYear(y)
    \/ \E y \in Years : LastDayOfWeekBasedYear(y)
    \/ \E y \in Years : NumWeeks(y)
    \/ pc = "rule" /\ \E d \in Dates : Week(d)
    \/ Succ
    \/ Pred
    \/ Week0

Spec == Init /\ [][Next]_vars

\* ------------------------------------------- split module (week/custom_week.rs)
\* CustomWeek::new: the public constructor of the split module, which stores
\* its four arguments as given.
CustomWeek_new(y, w, ws, s) == CustomWeek(y, w, ws, s)

NewWeekYears == {MinYear, MinYear + 1}

NewWeekNumbers == {0, 1, 53}

NewWeekStarts == (MinDate + 7)..(MinDate + 13)

CustomWeekNew(y, w, ws) ==
    /\ pc = "rule"
    /\ op' = "CustomWeek::new"
    /\ cw' = CustomWeek_new(y, w, ws, spec.value)
    /\ pc' = "week"
    /\ UNCHANGED <<spec, args, year, date, ret, failed>>

NextSplit ==
    \/ Next
    \/ \E y \in NewWeekYears, w \in NewWeekNumbers, ws \in NewWeekStarts :
          CustomWeekNew(y, w, ws)

SpecSplit == Init /\ [][NextSplit]_vars

\* ------------------------------------------------------------------- claims
HasRule == pc \in {"rule", "year", "week", "week0"}

HoldsWeek == pc \in {"week", "week0"}

January(y, d) == unwrap(from_ymd_opt(y, 1, d))

\* the number of days of the 7-day week starting at ws that are in January of y
DaysInJanuary(ws, y) ==
    Cardinality({d \in ws..(ws + 6) : d >= January(y, 1) /\ d <= January(y, 31)})

\* C1: the week returned by week(date) contains date:
\* week_start <= date < week_start + 7 days.
C1_WeekContainsDate ==
    (HoldsWeek /\ op \in {"week", "succ", "pred", "week0"}) =>
        /\ contains(cw, date)
        /\ cw.week_start <= date
        /\ date < cw.week_start + 7

C1_Witness ==
    /\ pc = "week"
    /\ op = "week"
    /\ date = cw.week_start + 6
    /\ date_year(cw.week_start) # date_year(date)

\* C2: first_day_of_week_based_year(year) falls on the rule's first day of
\* week, and its week is the earliest one with at least
\* min_days_in_first_week days in January of year; equivalently that week
\* contains January min_days_in_first_week of year.
C2_FirstDayOfWeekBasedYear ==
    (pc = "year" /\ op = "first_day_of_week_based_year") =>
        LET s == spec.value
            m == s.min_days_in_first_week
        IN  /\ weekday(ret) = s.first_day
            /\ DaysInJanuary(ret, year) >= m
            /\ DaysInJanuary(ret - 7, year) < m
            /\ ret <= January(year, m)
            /\ January(year, m) <= ret + 6

C2_Witness ==
    /\ pc = "year"
    /\ op = "first_day_of_week_based_year"
    /\ date_year(ret) = year - 1
    /\ DaysInJanuary(ret, year) = spec.value.min_days_in_first_week

\* C3: the triple returned by week(date) is self-consistent: week >= 1 and
\* week_start is first_day_of_week_based_year(year) + 7 * (week - 1) days,
\* in each of the three branches.
C3_TripleConsistent ==
    (HoldsWeek /\ op \in {"week", "succ", "pred", "week0"}) =>
        /\ cw.week >= 1
        /\ cw.week_start =
              first_day_of_week_based_year(cw.specification, cw.year) + 7 * (cw.week - 1)

C3_Witness ==
    /\ pc = "week"
    /\ op = "week"
    /\ cw.year = date_year(date) - 1
    /\ cw.week = 53

\* C4: succ then pred, and pred then succ, give back the same week (all four
\* fields), after any number of succ and pred steps.
C4_RoundTrip ==
    (pc = "week" /\ op \in {"week", "succ", "pred"}) =>
        /\ pred(succ(cw)) = cw
        /\ succ(pred(cw)) = cw

C4_Witness ==
    /\ pc = "week"
    /\ op = "pred"
    /\ succ(cw).year = cw.year + 1
    /\ pred(succ(cw)) = cw

\* C5: num_weeks(year) is 52 or 53, and is
\* 1 + floor((last_day_of_week_based_year - first_day_of_week_based_year) / 7).
C5_NumWeeks ==
    (pc = "year" /\ op = "num_weeks") =>
        /\ ret \in {52, 53}
        /\ ret = 1 + ((first_day_of_week_based_year(spec.value, year + 1) - 1
                        - first_day_of_week_based_year(spec.value, year)) \div 7)

C5_Witness ==
    /\ pc = "year"
    /\ op = "num_weeks"
    /\ ret = 53

\* C6: succ advances by exactly one week: week_start + 7 days, and
\* (year, week + 1) below num_weeks(year), (year + 1, 1) at num_weeks(year);
\* pred goes back one week, to (year - 1, num_weeks(year - 1)) from week 1.
C6_SuccPredStep ==
    [][ /\ (pc = "week" /\ pc' = "week" /\ op' = "succ") =>
            /\ cw'.week_start = cw.week_start + 7
            /\ cw'.specification = cw.specification
            /\ IF cw.week < num_weeks(cw.specification, cw.year)
               THEN cw'.year = cw.year /\ cw'.week = cw.week + 1
               ELSE /\ cw.week = num_weeks(cw.specification, cw.year)
                    /\ cw'.year = cw.year + 1
                    /\ cw'.week = 1
        /\ (pc = "week" /\ pc' = "week" /\ op' = "pred") =>
            /\ cw'.week_start = cw.week_start - 7
            /\ cw'.specification = cw.specification
            /\ IF cw.week > 1
               THEN cw'.year = cw.year /\ cw'.week = cw.week - 1
               ELSE /\ cw.week = 1
                    /\ cw'.year = cw.year - 1
                    /\ cw'.week = num_weeks(cw.specification, cw.year - 1)
      ]_vars

C6_Witness ==
    /\ pc = "week"
    /\ op = "succ"
    /\ cw.week = 1
    /\ date_year(cw.week_start) = cw.year - 1

\* C7: new(first_day, n) is the error OutOfRange(n, 1, 7) exactly when n < 1
\* or n > 7, and otherwise the rule with these two fields; every rule from
\* new or a preset has 1 <= min_days_in_first_week <= 7.
C7_NewValidates ==
    /\ (op = "new") =>
          LET fd == args[1]
              n == args[2]
          IN  /\ (spec.tag = "Err") <=> (n < 1 \/ n > 7)
              /\ (spec.tag = "Err") => (spec.err = OutOfRange(n, 1, 7) /\ pc = "error")
              /\ (spec.tag = "Ok") => (spec.value = WeekSpecification(fd, n))
    /\ HasRule =>
          /\ spec.tag = "Ok"
          /\ spec.value.min_days_in_first_week >= 1
          /\ spec.value.min_days_in_first_week <= 7
          /\ spec.value.first_day \in Weekday

C7_Witness ==
    /\ op = "new"
    /\ args[2] = 8
    /\ spec = Err(OutOfRange(8, 1, 7))

\* a week whose year, week and week_start agree under its rule
Consistent(w) ==
    /\ weekday(w.week_start) = w.specification.first_day
    /\ w.week >= 1
    /\ w.week <= num_weeks(w.specification, w.year)
    /\ w.week_start =
          first_day_of_week_based_year(w.specification, w.year) + 7 * (w.week - 1)

C9_NeverFails ==
    /\ ~failed
    /\ pc # "panicked"
    /\ HasRule =>
          \A y \in (IF pc = "year" THEN {year}
                    ELSE IF HoldsWeek THEN {date_year(date)} ELSE {}) :
              /\ from_ymd_opt(y, 1, spec.value.min_days_in_first_week) # None
              /\ with_ordinal0(January(y, 1), first_day_delta(spec.value, y)) # None
    /\ HoldsWeek => (cw.week >= 1 /\ week0(cw) = cw.week - 1)

C9_Witness ==
    /\ pc = "week0"
    /\ op = "week0"
    /\ ret = 52
    /\ ~failed

\* C10: delta = 7 - num_days_from_first_dow(weekday of January 1st) is between
\* 0 and 6, and January 1st + delta days is the first day on or after
\* January 1st that falls on the rule's first day of week.
C10_DeltaRange ==
    (pc = "year" /\ op = "first_day_of_week_based_year") =>
        LET s == spec.value
            delta == first_day_delta(s, year)
            january_first == January(year, 1)
        IN  /\ delta >= 0
            /\ delta <= 6
            /\ weekday(january_first + delta) = s.first_day
            /\ \A k \in 0..(delta - 1) : weekday(january_first + k) # s.first_day

\* C11: the classification is constant on each 7-day week: every date that
\* the week of a date contains is given the same year, week and week_start,
\* also when the week has December days and January days.
C11_ConstantOnWeek ==
    (HoldsWeek /\ op \in {"week", "succ", "pred", "week0"}) =>
        \A e \in (cw.week_start - 1)..(cw.week_start + 7) :
            contains(cw, e) => week(spec.value, e) = cw

C11_Witness ==
    /\ pc = "week"
    /\ op = "week"
    /\ date_year(date) # date_year(cw.week_start + 6)
    /\ date_year(date) = date_year(cw.week_start)
    /\ contains(cw, cw.week_start + 6)
    /\ week(spec.value, cw.week_start + 6) = cw

====
